---- MODULE Spec2Model ----
(***************************************************************************)
(* A model of SystemMonitorApp (src/main.py): the constructor, the Qt      *)
(* timer and event loop that drive update_system_info, the two rolling     *)
(* windows, the process ranking and the labels it writes.                  *)
(*                                                                         *)
(* Numbers: a CPU percentage is a whole percent, a resident set size is a  *)
(* number of bytes, the total memory is a number of KiB.  A quotient the   *)
(* code computes as a float (cpu / num_cores, rss / 1024 ** 2) is kept as  *)
(* the exact fraction [num, den]; Fmt2 is the "{:.2f}" conversion of such  *)
(* a fraction, in hundredths.                                              *)
(***************************************************************************)
EXTENDS Integers, Sequences, FiniteSets, TLC

VARIABLES
    pc,                     \* where the program is: "gpu", "cpu" (in __init__),
                            \* "idle" (event loop), "label", "process" (in a tick),
                            \* "crashed" (__init__ raised)
    cpu_usage_history,      \* self.cpu_usage_history
    memory_usage_history,   \* self.memory_usage_history
    process_labels_cpu,     \* texts of self.process_labels_cpu
    process_labels_memory,  \* texts of self.process_labels_memory
    system_info_label,      \* text of self.system_info_label
    gpu_name,               \* self.gpu_name
    cpu_name,               \* self.cpu_name
    timer_pending,          \* the QTimer's timeout is due and not yet delivered
    running,                \* executions of update_system_info in progress
    ticks,                  \* executions of update_system_info started so far
    outcome,                \* how the last execution ended
    gpu_query,              \* what the GPU capability did at startup
    cpu_lookup,             \* what the platform's CPU lookup found at startup
    cpu_usage,              \* update_system_info: cpu_usage
    memory_percent,         \* update_system_info: memory.percent
    sampled,                \* every <<cpu_usage, memory.percent>> sampled, in order
    enumerated,             \* update_process_info: what process_iter yielded
    num_cores,              \* update_process_info: num_cores
    processes,              \* update_process_info: processes
    top_cpu_ranked,         \* update_process_info: top_cpu_processes of line 104
    top_cpu_processes,      \* update_process_info: top_cpu_processes of line 105
    top_memory_processes    \* update_process_info: top_memory_processes

vars == <<pc, cpu_usage_history, memory_usage_history, process_labels_cpu,
          process_labels_memory, system_info_label, gpu_name, cpu_name,
          timer_pending, running, ticks, outcome, gpu_query, cpu_lookup,
          cpu_usage, memory_percent, sampled, enumerated, num_cores,
          processes, top_cpu_ranked, top_cpu_processes, top_memory_processes>>

---------------------------------------------------------------------------
(* Program constants *)

Capacity == 60

TopK == 5

NumLabels == 5

MiB == 1048576

Placeholder == [text |-> "-------------"]

IdleProcessName == "System Idle Process"

UnknownCpu == "Unknown CPU"

GpuNotFound == "GPU: Not found"

GpuNotSupported == "GPU: not supported"

\* An attribute __init__ has not assigned yet.
Unset == "<unset>"

---------------------------------------------------------------------------
(* Bounds of the model *)

\* Ticks explored by Spec.
MaxTicks == 2

\* Longest process enumeration explored by Spec.
SmallProcs == 2

\* Longest process enumeration explored by SpecRank and SpecLabels.
MaxProcs == 6

\* Ticks explored by SpecLong: more than Capacity, so that the windows wrap.
LongTicks == 62

\* Ticks of SpecLong whose readings are free; later ticks follow Ramp.
FreeTicks == 2

---------------------------------------------------------------------------
(* The rolling windows *)

InitialHistory == [i \in 1..Capacity |-> 0]

\* np.roll(w, shift) as np.roll(w, 1): the window rotated the other way.
RollRight(w, shift) ==
    [i \in 1..Len(w) |-> w[((i - 1 + shift + Len(w)) % Len(w)) + 1]]

\* np.roll(w, shift): result[i] = w[(i - shift) mod n], 0-based.
Roll(w, shift) ==
    [i \in 1..Len(w) |-> w[((i - 1 - shift + Len(w)) % Len(w)) + 1]]

\* w[-1] = v done as an append: the window grows.
AppendLast(w, v) == Append(w, v)

\* w[-1] = v
SetLast(w, v) == [w EXCEPT ![Len(w)] = v]

\* Lines 86-87 (and 89-90): the window rolled by -1, then its last entry set.
Push(w, v) == SetLast(Roll(w, -1), v)

---------------------------------------------------------------------------
(* Startup: the GPU name and the CPU name *)

Returned(v) == [raised |-> FALSE, value |-> v]

Raised(e) == [raised |-> TRUE, value |-> e]

\* What the GPU capability can do at startup: the import fails, the query
\* raises, or the query returns the list of GPU names.
GpuOutcomes ==
    { [import |-> "ImportError", query |-> "", gpus |-> <<>>],
      [import |-> "ok", query |-> "raises", gpus |-> <<>>],
      [import |-> "ok", query |-> "ok", gpus |-> <<>>],
      [import |-> "ok", query |-> "ok", gpus |-> <<"RTX 3080", "GT 710">>] }

NoGpuQuery == [import |-> "", query |-> "", gpus |-> <<>>]

\* Lines 23-28.  Only ImportError is caught.
ResolveGpuName(o) ==
    IF o.import = "ImportError" THEN Returned(GpuNotSupported)
    ELSE IF o.query = "raises" THEN Raised("Exception")
    ELSE IF Len(o.gpus) > 0 THEN Returned(o.gpus[1])
    ELSE Returned(GpuNotFound)

\* str.strip() on the strings the lookups meet.
Strip(s) ==
    CASE s = "Name  " -> "Name"
      [] s = "Intel Core i7  " -> "Intel Core i7"
      [] s = "  " -> ""
      [] s = " Xeon E5" -> "Xeon E5"
      [] s = " " -> ""
      [] OTHER -> s

\* "model name" in line, for a line given as its ":"-separated parts.
ContainsModelName(line) ==
    \E i \in DOMAIN line : line[i] \in {"model name\t", "model name"}

\* What the platform lookup can meet.  output: the lines of wmic's output;
\* cpuinfo: the lines of /proc/cpuinfo, each as its ":"-separated parts.
CpuLookups ==
    { [platform |-> "Windows", query |-> q, output |-> <<>>, cpuinfo |-> <<>>] :
        q \in {"FileNotFoundError", "CalledProcessError"} }
    \cup
    { [platform |-> "Windows", query |-> "ok", output |-> o, cpuinfo |-> <<>>] :
        o \in { <<>>, <<"Name  ", "  ">>, <<"Name  ", "Intel Core i7  ", "  ">> } }
    \cup
    { [platform |-> "Linux", query |-> q, output |-> <<>>, cpuinfo |-> <<>>] :
        q \in {"FileNotFoundError", "PermissionError"} }
    \cup
    { [platform |-> "Linux", query |-> "ok", output |-> <<>>, cpuinfo |-> c] :
        c \in { <<>>,
                << <<"vendor_id\t", " GenuineIntel">> >>,
                << <<"vendor_id\t", " GenuineIntel">>, <<"model name\t", " Xeon E5">> >>,
                << <<"vendor_id\t", " GenuineIntel">>, <<"model name">> >> } }
    \cup
    { [platform |-> "Darwin", query |-> "", output |-> <<>>, cpuinfo |-> <<>>] }

NoCpuLookup == [platform |-> "", query |-> "", output |-> <<>>, cpuinfo |-> <<>>]

\* Line 36: the stripped, non-empty lines of the output, in order.
StrippedLines(output) ==
    LET keep == {i \in DOMAIN output : Strip(output[i]) # ""}
        nth(k) == CHOOSE i \in keep : Cardinality({j \in keep : j < i}) = k - 1
    IN  [k \in 1..Cardinality(keep) |-> Strip(output[nth(k)])]

\* Lines 33-42.  Only CalledProcessError is caught.
WindowsCpuName(l) ==
    IF l.query = "CalledProcessError" THEN Returned(UnknownCpu)
    ELSE IF l.query # "ok" THEN Raised(l.query)
    ELSE LET lines == StrippedLines(l.output)
         IN  IF Len(lines) > 1 THEN Returned(lines[2]) ELSE Returned(UnknownCpu)

\* Lines 43-51.  Only FileNotFoundError is caught.
LinuxCpuName(l) ==
    IF l.query = "FileNotFoundError" THEN Returned(UnknownCpu)
    ELSE IF l.query # "ok" THEN Raised(l.query)
    ELSE LET hits == {i \in DOMAIN l.cpuinfo : ContainsModelName(l.cpuinfo[i])}
         IN  IF hits = {} THEN Returned(UnknownCpu)
             ELSE LET first == CHOOSE i \in hits : \A j \in hits : i <= j
                      parts == l.cpuinfo[first]
                  IN  IF Len(parts) < 2 THEN Raised("IndexError")
                      ELSE Returned(Strip(parts[2]))

\* Lines 32-51.
get_cpu_name(l) ==
    IF l.platform = "Windows" THEN WindowsCpuName(l)
    ELSE IF l.platform = "Linux" THEN LinuxCpuName(l)
    ELSE Returned(UnknownCpu)

---------------------------------------------------------------------------
(* Number formatting *)

\* "{:.2f}" of the float nearest num / den, in hundredths: the quotient
\* rounded to two decimals, an exact half going to the even digit (such a
\* half is a binary fraction, so the float holds it exactly).
Fmt2(num, den) ==
    LET q == num \div den
        r == num % den
        h == (r * 100) \div den
        rest == (r * 100) % den
        down == q * 100 + h
    IN  IF 2 * rest > den THEN down + 1
        ELSE IF 2 * rest < den THEN down
        ELSE IF down % 2 = 1 THEN down + 1 ELSE down

---------------------------------------------------------------------------
(* update_process_info: the process list and its two rankings *)

Min(a, b) == IF a < b THEN a ELSE b

\* The sequence f with every entry computed (the same value as f).
Listed(f) == SubSeq(f, 1, Len(f))

\* The comprehension's condition left out: every process is kept.
KeepAll(en) == en

\* Line 102: the comprehension's condition.
FilterIdle(en) == SelectSeq(en, LAMBDA p : p.name # IdleProcessName)

\* Lines 100-102.  p.memory_info() raises for a process that has gone; the
\* condition is evaluated first, so a process it rejects is never asked.
BuildProcesses(en) ==
    LET kept == FilterIdle(en)
    IN  IF \E i \in DOMAIN kept : ~kept[i].alive
        THEN Raised("NoSuchProcess")
        ELSE Returned(Listed([i \in DOMAIN kept |->
                 [name |-> kept[i].name,
                  cpu |-> kept[i].cpu_percent,
                  memory |-> [num |-> kept[i].rss, den |-> MiB]]]))

\* Where the insertion stops when it also passes the entries of equal key.
RECURSIVE InsertAtPastEqual(_, _, _, _)
InsertAtPastEqual(keys, prev, k, j) ==
    IF j > Len(prev) \/ keys[prev[j]] <= k THEN j
    ELSE InsertAtPastEqual(keys, prev, k, j + 1)

\* An ascending stable sort, reversed: equal keys come out in reverse order.
RECURSIVE SortedAscendingReversed(_, _)
SortedAscendingReversed(keys, n) ==
    IF n = 0 THEN <<>>
    ELSE LET prev == SortedAscendingReversed(keys, n - 1)
             pos == InsertAtPastEqual(keys, prev, keys[n], 1)
         IN  SubSeq(prev, 1, pos - 1) \o <<n>> \o SubSeq(prev, pos, n - 1)

\* The first position j of prev (indices in descending key order) whose
\* entry has a key smaller than k, or Len(prev) + 1.
RECURSIVE InsertAt(_, _, _, _)
InsertAt(keys, prev, k, j) ==
    IF j > Len(prev) \/ keys[prev[j]] < k THEN j
    ELSE InsertAt(keys, prev, k, j + 1)

\* sorted(..., reverse=True) on the keys of entries 1..n: the entries' indices
\* in descending key order, equal keys in their original order (the sort is
\* stable, and reverse=True keeps it so).  Built by insertion: entry n goes
\* after every earlier entry whose key is at least its own.
RECURSIVE SortedReverse(_, _)
SortedReverse(keys, n) ==
    IF n = 0 THEN <<>>
    ELSE LET prev == SortedReverse(keys, n - 1)
             pos == InsertAt(keys, prev, keys[n], 1)
         IN  SubSeq(prev, 1, pos - 1) \o <<n>> \o SubSeq(prev, pos, n - 1)

\* sorted(s, key=..., reverse=True), keys[i] being the key of s[i].
SortedBy(s, keys) ==
    LET idx == SortedReverse(keys, Len(s))
    IN  [i \in 1..Len(s) |-> s[idx[i]]]

\* s[:k]
Take(s, k) == SubSeq(s, 1, Min(k, Len(s)))

\* key=lambda x: x[1]
CpuKeys(ps) == Listed([i \in DOMAIN ps |-> ps[i].cpu])

\* key=lambda x: x[2]; every memory has the same denominator.
MemoryKeys(ps) == Listed([i \in DOMAIN ps |-> ps[i].memory.num])

\* Line 105: cpu / num_cores in each entry.
Normalize(ps, cores) ==
    Listed([i \in DOMAIN ps |->
        [name |-> ps[i].name,
         cpu |-> [num |-> ps[i].cpu, den |-> cores],
         memory |-> ps[i].memory]])

\* Line 111: f"{name}: CPU {cpu:.2f}%"
CpuText(e) ==
    [name |-> e.name, metric |-> "CPU", value |-> Fmt2(e.cpu.num, e.cpu.den)]

\* Line 115: f"{name}: Memory {memory:.2f} MB"
MemoryText(e) ==
    [name |-> e.name, metric |-> "Memory",
     value |-> Fmt2(e.memory.num, e.memory.den)]

\* The loop also resetting the labels it has no entry for.
SetTextsClearing(labels, texts) ==
    [i \in 1..Len(labels) |->
        IF i <= Len(texts) THEN texts[i] ELSE Placeholder]

\* Lines 109-111 (and 113-115): label i takes text i, for every text that
\* has a label; the other labels are not touched.
SetTexts(labels, texts) ==
    [i \in 1..Len(labels) |->
        IF i <= Len(texts) THEN texts[i] ELSE labels[i]]

\* Lines 123-125: the status label's text, the total given in KiB.
InfoText(total_kib) ==
    [cpu |-> cpu_name, gpu |-> gpu_name, memory |-> Fmt2(total_kib, MiB)]

---------------------------------------------------------------------------
(* Inputs *)

\* Every sequence over alphabet of length at most n.
AllSeqs(alphabet, n) == UNION { [1..k -> alphabet] : k \in 0..n }

ProcA == [name |-> "a", cpu_percent |-> 90, rss |-> 100 * MiB, alive |-> TRUE]

ProcB == [name |-> "b", cpu_percent |-> 50, rss |-> 500 * MiB, alive |-> TRUE]

ProcC == [name |-> "c", cpu_percent |-> 90, rss |-> 500 * MiB, alive |-> TRUE]

ProcIdle ==
    [name |-> IdleProcessName, cpu_percent |-> 395, rss |-> 8192, alive |-> TRUE]

\* A process that exits between its enumeration and memory_info().
ProcGone == [name |-> "x", cpu_percent |-> 10, rss |-> 1234567, alive |-> FALSE]

Ramp(t) == <<(7 * t) % 101, (3 * t + 1) % 101>>

---------------------------------------------------------------------------
(* State after lines 14-22 of __init__: the windows and the labels exist,  *)
(* the timer is started, gpu_name and cpu_name are not assigned yet.       *)

Init ==
    /\ pc = "gpu"
    /\ cpu_usage_history = InitialHistory
    /\ memory_usage_history = InitialHistory
    /\ process_labels_cpu = [i \in 1..NumLabels |-> Placeholder]
    /\ process_labels_memory = [i \in 1..NumLabels |-> Placeholder]
    /\ system_info_label = [text |-> ""]
    /\ gpu_name = Unset
    /\ cpu_name = Unset
    /\ timer_pending = FALSE
    /\ running = 0
    /\ ticks = 0
    /\ outcome = "none"
    /\ gpu_query = NoGpuQuery
    /\ cpu_lookup = NoCpuLookup
    /\ cpu_usage = 0
    /\ memory_percent = 0
    /\ sampled = <<>>
    /\ enumerated = <<>>
    /\ num_cores = 1
    /\ processes = <<>>
    /\ top_cpu_ranked = <<>>
    /\ top_cpu_processes = <<>>
    /\ top_memory_processes = <<>>

tick_locals == <<cpu_usage, memory_percent, sampled>>

process_locals == <<enumerated, num_cores, processes, top_cpu_ranked,
                    top_cpu_processes, top_memory_processes>>

windows == <<cpu_usage_history, memory_usage_history>>

labels == <<process_labels_cpu, process_labels_memory>>

---------------------------------------------------------------------------
(* __init__, lines 23-30 *)

\* Lines 23-28: an exception that is not caught leaves __init__, and the
\* program ends with it (line 140 is not in a try).
ResolveGpu(outcomes) ==
    /\ pc = "gpu"
    /\ \E o \in outcomes :
        LET r == ResolveGpuName(o)
        IN  /\ gpu_query' = o
            /\ gpu_name' = IF r.raised THEN gpu_name ELSE r.value
            /\ pc' = IF r.raised THEN "crashed" ELSE "cpu"
    /\ UNCHANGED <<windows, labels, system_info_label, cpu_name, timer_pending,
                   running, ticks, outcome, cpu_lookup, tick_locals,
                   process_locals>>

\* Line 30, then lines 141-142: the window is shown and the event loop runs.
ResolveCpu(lookups) ==
    /\ pc = "cpu"
    /\ \E l \in lookups :
        LET r == get_cpu_name(l)
        IN  /\ cpu_lookup' = l
            /\ cpu_name' = IF r.raised THEN cpu_name ELSE r.value
            /\ pc' = IF r.raised THEN "crashed" ELSE "idle"
    /\ UNCHANGED <<windows, labels, system_info_label, gpu_name, timer_pending,
                   running, ticks, outcome, gpu_query, tick_locals,
                   process_locals>>

---------------------------------------------------------------------------
(* The timer and the event loop *)

\* The interval of the timer started at line 22 elapses: its timeout becomes
\* due.  This can happen at any time, during __init__ or during a tick; a
\* timeout that is already due is not queued twice.
TimerFire ==
    /\ pc # "crashed"
    /\ ~timer_pending
    /\ timer_pending' = TRUE
    /\ UNCHANGED <<pc, windows, labels, system_info_label, gpu_name, cpu_name,
                   running, ticks, outcome, gpu_query, cpu_lookup, tick_locals,
                   process_locals>>

\* An event loop that delivers a timeout while a slot is still running.
LoopReentrant == pc \in {"idle", "label", "process"}

\* An event loop that already runs while __init__ is at work.
LoopDuringInit == pc \in {"idle", "gpu", "cpu"}

\* The event loop of line 142 delivers a due timeout when control is back in
\* it: after __init__ has returned, and not while a slot runs (the slot is
\* called on the loop's own thread and never re-enters the loop).
LoopIdle == pc = "idle"

InTick == pc \in {"label", "process"}

---------------------------------------------------------------------------
(* update_system_info *)

\* Lines 83-93: the slot is entered, both metrics are sampled and pushed.
\* readings[t] are the readings the source can give at tick t.
TickSample(readings, maxTicks) ==
    /\ LoopIdle
    /\ timer_pending
    /\ ticks < maxTicks
    /\ \E r \in readings[ticks] :
        /\ cpu_usage' = r[1]
        /\ memory_percent' = r[2]
        /\ cpu_usage_history' = Push(cpu_usage_history, r[1])
        /\ memory_usage_history' = Push(memory_usage_history, r[2])
        /\ sampled' = Append(sampled, r)
    /\ timer_pending' = FALSE
    /\ running' = running + 1
    /\ ticks' = ticks + 1
    /\ pc' = "label"
    /\ UNCHANGED <<labels, system_info_label, gpu_name, cpu_name, outcome,
                   gpu_query, cpu_lookup, process_locals>>

\* Lines 94, 117-125.  psutil.cpu_freq() returns None where the frequency
\* cannot be determined, and cpu_info.current then raises; the exception
\* leaves the slot and the event loop goes on.
TickLabel(freqs, totals) ==
    /\ pc = "label"
    /\ \E f \in freqs, t \in totals :
        IF f = "None"
        THEN /\ pc' = "idle"
             /\ running' = running - 1
             /\ outcome' = "label_raised"
             /\ UNCHANGED system_info_label
        ELSE /\ pc' = "process"
             /\ system_info_label' = InfoText(t)
             /\ UNCHANGED <<running, outcome>>
    /\ UNCHANGED <<windows, labels, gpu_name, cpu_name, timer_pending, ticks,
                   gpu_query, cpu_lookup, tick_locals, process_locals>>

\* Lines 95, 97-115.  An exception of the comprehension leaves the slot
\* before anything is ranked or shown.
TickProcess(snapshots, cores) ==
    /\ pc = "process"
    /\ \E en \in snapshots, c \in cores :
        LET r == BuildProcesses(en)
        IN  /\ enumerated' = en
            /\ num_cores' = c
            /\ IF r.raised
               THEN /\ outcome' = "process_raised"
                    /\ processes' = <<>>
                    /\ top_cpu_ranked' = <<>>
                    /\ top_cpu_processes' = <<>>
                    /\ top_memory_processes' = <<>>
                    /\ UNCHANGED labels
               ELSE /\ outcome' = "done"
                    /\ processes' = r.value
                    /\ top_cpu_ranked' =
                         Take(SortedBy(processes', CpuKeys(processes')), TopK)
                    /\ top_cpu_processes' = Normalize(top_cpu_ranked', c)
                    /\ top_memory_processes' =
                         Take(SortedBy(processes', MemoryKeys(processes')), TopK)
                    /\ process_labels_cpu' =
                         SetTexts(process_labels_cpu,
                                  [i \in DOMAIN top_cpu_processes' |->
                                      CpuText(top_cpu_processes'[i])])
                    /\ process_labels_memory' =
                         SetTexts(process_labels_memory,
                                  [i \in DOMAIN top_memory_processes' |->
                                      MemoryText(top_memory_processes'[i])])
    /\ pc' = "idle"
    /\ running' = running - 1
    /\ UNCHANGED <<windows, system_info_label, gpu_name, cpu_name,
                   timer_pending, ticks, gpu_query, cpu_lookup, tick_locals>>

---------------------------------------------------------------------------
(* Specifications: the same program under four sets of inputs *)

OneReading == [t \in Nat |-> { <<37, 80>> }]

FreeReadings == { <<0, 0>>, <<100, 55>>, <<12, 100>> }

LongReadings == [t \in Nat |-> IF t < FreeTicks THEN FreeReadings ELSE { Ramp(t) }]

\* Short process lists, some with a process that goes.
SmallSnapshots == AllSeqs({ProcA, ProcGone}, SmallProcs)

LongSnapshots == { <<ProcA>>, <<ProcGone>> }

\* Every list of up to MaxProcs processes, with ties in either key and with
\* the idle process.
RankSnapshots == AllSeqs({ProcA, ProcB, ProcC, ProcIdle}, MaxProcs)

\* Every list of up to MaxProcs entries of two processes.
LabelSnapshots == AllSeqs({ProcA, ProcB}, MaxProcs)

\* psutil.cpu_freq() gives a frequency, or None.
FreqOutcomes == {"ok", "None"}

FreqKnown == {"ok"}

\* psutil.virtual_memory().total, in KiB: 8 GiB.
Totals == {8 * MiB}

TwoCores == {2}

OneOrThreeCores == {1, 3}

OneGpu == { [import |-> "ok", query |-> "ok", gpus |-> <<>>] }

OneCpu == { [platform |-> "Darwin", query |-> "", output |-> <<>>, cpuinfo |-> <<>>] }

\* Every startup, a few ticks, short process lists with processes that go.
Next ==
    \/ ResolveGpu(GpuOutcomes)
    \/ ResolveCpu(CpuLookups)
    \/ TimerFire
    \/ TickSample(OneReading, MaxTicks)
    \/ TickLabel(FreqOutcomes, Totals)
    \/ TickProcess(SmallSnapshots, TwoCores)

Spec == Init /\ [][Next]_vars

\* Enough ticks for the windows to wrap.
NextLong ==
    \/ ResolveGpu(OneGpu)
    \/ ResolveCpu(OneCpu)
    \/ TimerFire
    \/ TickSample(LongReadings, LongTicks)
    \/ TickLabel(FreqOutcomes, Totals)
    \/ TickProcess(LongSnapshots, TwoCores)

SpecLong == Init /\ [][NextLong]_vars

\* One tick over every process list of up to MaxProcs entries.
NextRank ==
    \/ ResolveGpu(OneGpu)
    \/ ResolveCpu(OneCpu)
    \/ TimerFire
    \/ TickSample(OneReading, 1)
    \/ TickLabel(FreqKnown, Totals)
    \/ TickProcess(RankSnapshots, OneOrThreeCores)

SpecRank == Init /\ [][NextRank]_vars

\* Two ticks over every list of up to MaxProcs entries of two processes.
NextLabels ==
    \/ ResolveGpu(OneGpu)
    \/ ResolveCpu(OneCpu)
    \/ TimerFire
    \/ TickSample(OneReading, 2)
    \/ TickLabel(FreqKnown, Totals)
    \/ TickProcess(LabelSnapshots, TwoCores)

SpecLabels == Init /\ [][NextLabels]_vars

---------------------------------------------------------------------------
(* Properties *)

\* C1: in every reachable state each of the two windows has exactly
\* Capacity (60) entries, whatever was sampled and however the tick ended.
C1_WindowLength ==
    /\ Len(cpu_usage_history) = Capacity
    /\ Len(memory_usage_history) = Capacity

\* More ticks than the windows have entries: every entry has been replaced.
C1_Witness ==
    /\ ticks > Capacity
    /\ pc = "idle"
    /\ cpu_usage_history[1] = sampled[ticks - Capacity + 1][1]

\* The window a FIFO of capacity c holds after the samples vs (n <= c) were
\* pushed onto c zeros, read in column k of the samples.
FifoOf(vs, k) ==
    [i \in 1..Capacity |->
        IF i <= Capacity - Len(vs) THEN 0 ELSE vs[i - (Capacity - Len(vs))][k]]

\* C2: the windows are FIFO.  After n <= Capacity ticks the last n entries
\* are the n samples in the order sampled and the entries before them are
\* still zero; and every tick turns each window into the old window without
\* its first entry, followed by the new sample.
C2_Fifo ==
    /\ [](ticks <= Capacity =>
            /\ cpu_usage_history = FifoOf(sampled, 1)
            /\ memory_usage_history = FifoOf(sampled, 2))
    /\ [][ticks' # ticks =>
            /\ cpu_usage_history' = Append(Tail(cpu_usage_history), cpu_usage')
            /\ memory_usage_history' =
                 Append(Tail(memory_usage_history), memory_percent')]_vars

\* The windows are full of samples for the first time, the oldest a real one.
C2_Witness ==
    /\ ticks = Capacity
    /\ sampled[1][1] # 0
    /\ sampled[1][2] # 0
    /\ cpu_usage_history[1] = sampled[1][1]
    /\ memory_usage_history[Capacity] = sampled[Capacity][2]

\* How many entries come before entry i in descending key order, ties in
\* original order.
Before(keys, i) ==
    Cardinality({j \in DOMAIN keys :
                    keys[j] > keys[i] \/ (keys[j] = keys[i] /\ j < i)})

\* ranked is the first min(TopK, n) entries of ps in descending key order,
\* ties in original order.
IsTopK(ranked, ps, keys) ==
    /\ Len(ranked) = Min(TopK, Len(ps))
    /\ \A i \in DOMAIN ps :
          Before(keys, i) < TopK => ranked[Before(keys, i) + 1] = ps[i]

\* A tick has ended and every process it enumerated answered.
RankedTick ==
    /\ pc = "idle"
    /\ ticks > 0
    /\ outcome # "label_raised"
    /\ \A i \in DOMAIN enumerated : enumerated[i].alive

\* C3: for every process list the tick builds (n entries, possibly none,
\* possibly fewer than 5) the tick ends without an error, and each of its
\* two rankings is the first min(5, n) entries of that list in descending
\* order of its key (raw CPU percent, memory), ties in original order.
C3_TopK ==
    RankedTick =>
        /\ outcome = "done"
        /\ IsTopK(top_cpu_ranked, processes,
                  [i \in DOMAIN processes |-> processes[i].cpu])
        /\ IsTopK(top_memory_processes, processes,
                  [i \in DOMAIN processes |-> processes[i].memory.num])

\* More than TopK processes, and the cut falls between two of equal CPU: a
\* process left out has the CPU value of the last one ranked.
C3_Witness ==
    /\ RankedTick
    /\ Len(processes) > TopK
    /\ \E i \in DOMAIN processes :
          /\ processes[i].cpu = top_cpu_ranked[TopK].cpu
          /\ \A j \in DOMAIN top_cpu_ranked : top_cpu_ranked[j].name # processes[i].name

\* The tick failed over a process that had gone.
ProcessGone ==
    /\ outcome \in {"done", "process_raised"}
    /\ \E i \in DOMAIN enumerated : ~enumerated[i].alive

\* C4: a process that has gone by the time its details are fetched is
\* skipped and the tick completes, ranking the processes that remain.
C4_GoneEntrySkipped ==
    (pc = "idle" /\ ProcessGone) =>
        /\ outcome = "done"
        /\ Len(processes) =
             Cardinality({i \in DOMAIN enumerated :
                 enumerated[i].alive /\ enumerated[i].name # IdleProcessName})

\* C5: when the GPU capability cannot be imported or its query raises, the
\* GPU step of the constructor completes with gpu_name = "GPU: not supported".
C5_GpuSentinel ==
    (gpu_query.import = "ImportError" \/ gpu_query.query = "raises") =>
        /\ ~(pc = "crashed" /\ cpu_lookup = NoCpuLookup)
        /\ gpu_name = GpuNotSupported

\* The platform lookup failed: no command or file, an error, no data.
LookupFailed(l) ==
    \/ l.platform \notin {"Windows", "Linux"}
    \/ l.query # "ok"
    \/ l.platform = "Windows" /\ Len(StrippedLines(l.output)) < 2
    \/ /\ l.platform = "Linux"
       /\ \A i \in DOMAIN l.cpuinfo :
             ContainsModelName(l.cpuinfo[i]) => Len(l.cpuinfo[i]) < 2

\* C6: get_cpu_name never raises, and returns "Unknown CPU" whenever the
\* platform lookup failed.
C6_CpuNameNeverRaises ==
    cpu_lookup # NoCpuLookup =>
        /\ pc # "crashed"
        /\ LookupFailed(cpu_lookup) => cpu_name = UnknownCpu

\* C7: ticks never overlap.  At most one execution of update_system_info is
\* in progress, it is in progress exactly while the slot runs, and a tick
\* starts only when none is in progress, also when the timer's interval
\* has elapsed again during a tick.
C7_NoOverlap ==
    /\ [](running = IF InTick THEN 1 ELSE 0)
    /\ [][ticks' # ticks => running = 0 /\ ~InTick]_vars
    /\ [][InTick /\ timer_pending' /\ ~timer_pending => ticks' = ticks /\ pc' = pc]_vars

\* The interval elapsed during the second tick, after an earlier tick ended.
C7_Witness ==
    /\ pc = "process"
    /\ timer_pending
    /\ ticks = 2
    /\ running = 1

\* C8: no ranking of any tick, and no label, holds an entry named
\* "System Idle Process".
C8_NoIdleRanked ==
    /\ \A i \in DOMAIN top_cpu_ranked : top_cpu_ranked[i].name # IdleProcessName
    /\ \A i \in DOMAIN top_cpu_processes : top_cpu_processes[i].name # IdleProcessName
    /\ \A i \in DOMAIN top_memory_processes :
          top_memory_processes[i].name # IdleProcessName
    /\ \A i \in 1..NumLabels :
          /\ process_labels_cpu[i] # Placeholder =>
                process_labels_cpu[i].name # IdleProcessName
          /\ process_labels_memory[i] # Placeholder =>
                process_labels_memory[i].name # IdleProcessName

\* The idle process was enumerated with the highest CPU value, next to fewer
\* than TopK other processes.
C8_Witness ==
    /\ RankedTick
    /\ Len(processes) \in 1..(TopK - 1)
    /\ \E i \in DOMAIN enumerated :
          /\ enumerated[i].name = IdleProcessName
          /\ \A j \in DOMAIN enumerated :
                enumerated[j].cpu_percent <= enumerated[i].cpu_percent

\* C9: cpu_name and gpu_name are assigned before any tick runs, the status
\* label a tick builds shows them, and nothing after the constructor changes
\* them or queries the platform again.
C9_NamesFixed ==
    /\ [](InTick => cpu_name # Unset /\ gpu_name # Unset)
    /\ [](pc = "process" =>
            system_info_label.cpu = cpu_name /\ system_info_label.gpu = gpu_name)
    /\ [][pc \notin {"gpu", "cpu"} =>
            UNCHANGED <<cpu_name, gpu_name, gpu_query, cpu_lookup>>]_vars

\* The interval elapsed during the constructor, the names were found, and a
\* second tick has built the label from them.
C9_Witness ==
    /\ pc = "process"
    /\ ticks = 2
    /\ cpu_name = "Xeon E5"
    /\ gpu_name = "RTX 3080"
    /\ system_info_label.cpu = "Xeon E5"

\* C10: a tick that ranked m entries sets labels 1..m of each list to the
\* texts of its ranking, in order, and leaves the other labels as they were.
C10_OtherLabelsKept ==
    [][(pc = "process" /\ outcome' = "done") =>
        \A i \in 1..NumLabels :
            /\ process_labels_cpu'[i] =
                  IF i <= Len(top_cpu_processes')
                  THEN CpuText(top_cpu_processes'[i])
                  ELSE process_labels_cpu[i]
            /\ process_labels_memory'[i] =
                  IF i <= Len(top_memory_processes')
                  THEN MemoryText(top_memory_processes'[i])
                  ELSE process_labels_memory[i]]_vars

\* After a tick with fewer than 5 processes the last CPU label still shows a
\* process of an earlier tick that the current enumeration does not have.
C10_Witness ==
    /\ pc = "idle"
    /\ outcome = "done"
    /\ Len(top_cpu_processes) \in 1..(NumLabels - 1)
    /\ process_labels_cpu[NumLabels] # Placeholder
    /\ \A j \in DOMAIN enumerated :
          enumerated[j].name # process_labels_cpu[NumLabels].name

====
